---- MODULE Spec2Model ----
(***************************************************************************)
(* Model of main.py: the OCR text parser (parse_text_to_stops, driven by   *)
(* the parse-image handler) and the bus-line store with its ETA projector  *)
(* (create_line, compute_eta).                                             *)
(*                                                                         *)
(* A Python str is a sequence of one-character strings; Optional[T] is the *)
(* empty sequence (None) or a one-element sequence holding the value.      *)
(***************************************************************************)
EXTENDS Integers, Sequences, FiniteSets, TLC

VARIABLES pc, caller, text, lines, idx, stops, last_time, response, error,
          db, doc, base, elapsed, result

vars == <<pc, caller, text, lines, idx, stops, last_time, response, error,
          db, doc, base, elapsed, result>>

etaVars == <<db, doc, base, elapsed, result>>

(***************************************************************************)
(* Bounds of the model: lines of a parsed text, ParsedResults of an OCR    *)
(* reply, and stops held by the whole busline collection.                  *)
(***************************************************************************)
MaxLines == 3
MaxResults == 2
MaxStoredStops == 3

(***************************************************************************)
(* Python values.                                                          *)
(***************************************************************************)
None == <<>>
Some(v) == <<v>>
Val(o) == o[1]

\* U+2022, the bullet character of the strip set and of the bullet pattern.
BULLET == "U+2022"

DigitChars == <<"0", "1", "2", "3", "4", "5", "6", "7", "8", "9">>

IsDigit(c) == c \in {"0", "1", "2", "3", "4", "5", "6", "7", "8", "9"}

DigitVal(c) == (CHOOSE d \in 1..10 : DigitChars[d] = c) - 1

\* str whitespace, as used by str.strip() and by \s.
IsSpace(c) == c \in {" ", "\t"}

\* re.I folds the case of the letters of the unit suffix.
Lower(c) ==
  CASE c = "M" -> "m"
    [] c = "I" -> "i"
    [] c = "N" -> "n"
    [] c = "U" -> "u"
    [] c = "T" -> "t"
    [] c = "E" -> "e"
    [] c = "S" -> "s"
    [] OTHER -> c

LowerStr(s) == [k \in 1..Len(s) |-> Lower(s[k])]

\* s[a..b] with 1-based inclusive indices; empty when a > b.
Slice(s, a, b) == IF a > b THEN <<>> ELSE SubSeq(s, a, b)

\* int(s) for a string of decimal digits.
RECURSIVE ToInt(_)
ToInt(s) ==
  IF Len(s) = 0 THEN 0
  ELSE 10 * ToInt(Slice(s, 1, Len(s) - 1)) + DigitVal(s[Len(s)])

\* str(n) for n >= 0.
RECURSIVE IntToStr(_)
IntToStr(n) ==
  IF n < 10 THEN <<DigitChars[n + 1]>>
  ELSE IntToStr(n \div 10) \o <<DigitChars[(n % 10) + 1]>>

\* First index >= p of s that holds no whitespace (Len(s)+1 when none).
RECURSIVE SkipSpaces(_, _)
SkipSpaces(s, p) ==
  IF p <= Len(s) /\ IsSpace(s[p]) THEN SkipSpaces(s, p + 1) ELSE p

\* First index >= p of s that holds no digit (Len(s)+1 when none).
RECURSIVE SkipDigits(_, _)
SkipDigits(s, p) ==
  IF p <= Len(s) /\ IsDigit(s[p]) THEN SkipDigits(s, p + 1) ELSE p

\* Last index <= p of s that holds no character of set cs (0 when none).
RECURSIVE SkipBack(_, _, _)
SkipBack(s, p, cs) ==
  IF p >= 1 /\ s[p] \in cs THEN SkipBack(s, p - 1, cs) ELSE p

\* First index >= p of s that holds no character of set cs.
RECURSIVE SkipFwd(_, _, _)
SkipFwd(s, p, cs) ==
  IF p <= Len(s) /\ s[p] \in cs THEN SkipFwd(s, p + 1, cs) ELSE p

\* str.strip(chars): drop the characters of cs at both ends.
StripChars(s, cs) == Slice(s, SkipFwd(s, 1, cs), SkipBack(s, Len(s), cs))

\* str.strip().
Strip(s) == StripChars(s, {" ", "\t"})

\* str.splitlines(): break at "\n"; no trailing empty line.
RECURSIVE SplitFrom(_, _, _)
SplitFrom(s, p, start) ==
  IF p > Len(s)
    THEN IF start > Len(s) THEN <<>> ELSE <<Slice(s, start, Len(s))>>
  ELSE IF s[p] = "\n"
    THEN <<Slice(s, start, p - 1)>> \o SplitFrom(s, p + 1, p + 1)
  ELSE SplitFrom(s, p + 1, start)

SplitLines(s) == SplitFrom(s, 1, 1)

\* "\n".join(parts)
RECURSIVE JoinNL(_)
JoinNL(parts) ==
  IF Len(parts) = 0 THEN <<>>
  ELSE IF Len(parts) = 1 THEN parts[1]
  ELSE parts[1] \o <<"\n">> \o JoinNL(Tail(parts))

\* [l.strip() for l in text.splitlines() if l.strip()]
RECURSIVE StripNonEmpty(_)
StripNonEmpty(ls) ==
  IF Len(ls) = 0 THEN <<>>
  ELSE IF Len(Strip(ls[1])) > 0
    THEN <<Strip(ls[1])>> \o StripNonEmpty(Tail(ls))
  ELSE StripNonEmpty(Tail(ls))

NormalizeLines(s) == StripNonEmpty(SplitLines(s))

\* time_line_pattern (re.I), matched from the start of the line:
\*   name: lazy run of one or more characters; one or more spaces; an
\*   optional "-" with spaces after it; min: 1 to 3 digits; spaces; an
\*   optional unit "min", "m", "minute" or "minutes"; end of line.
UnitSuffixes ==
  { <<>>, <<"m", "i", "n">>, <<"m">>,
    <<"m", "i", "n", "u", "t", "e">>,
    <<"m", "i", "n", "u", "t", "e", "s">> }

\* Position of the <min> digits when s[p..] matches
\* the pattern from the spaces after name to the end of line, else 0.
\* The space runs take every space and min takes the whole digit run: a
\* character they leave behind is matched by nothing that follows them.
TailMinStart(s, p) ==
  LET a == SkipSpaces(s, p)
      b == IF a <= Len(s) /\ s[a] = "-" THEN SkipSpaces(s, a + 1) ELSE a
      c == SkipDigits(s, b)
      d == SkipSpaces(s, c)
  IN IF /\ a > p
        /\ c - b >= 1
        /\ c - b <= 3
        /\ LowerStr(Slice(s, d, Len(s))) \in UnitSuffixes
     THEN b ELSE 0

\* Lengths of <name> for which the rest of the line matches.
NameLens(l) == {k \in 1..Len(l) : TailMinStart(l, k + 1) > 0}

TimeLineMatches(l) == NameLens(l) /= {}

\* .+? is lazy: the shortest name that lets the rest match.
NameLen(l) == CHOOSE k \in NameLens(l) : \A k2 \in NameLens(l) : k <= k2

GroupName(l) == Slice(l, 1, NameLen(l))

GroupMin(l) ==
  LET b == TailMinStart(l, NameLen(l) + 1)
  IN Slice(l, b, SkipDigits(l, b) - 1)

\* hhmm_pattern, used with findall: 1 or 2 digits, ":", 2 digits.
\* Number of hour digits of a match starting at p (2 is tried before 1),
\* or 0 when there is no match at p.
HhmmAt(s, p) ==
  LET ok(n) == /\ p + n + 2 <= Len(s)
               /\ \A k \in 0..(n - 1) : IsDigit(s[p + k])
               /\ s[p + n] = ":"
               /\ IsDigit(s[p + n + 1])
               /\ IsDigit(s[p + n + 2])
  IN IF ok(2) THEN 2 ELSE IF ok(1) THEN 1 ELSE 0

\* findall from position p: non-overlapping matches, left to right, each as
\* <<int(h), int(m)>>.
RECURSIVE FindAllFrom(_, _)
FindAllFrom(s, p) ==
  IF p > Len(s) THEN <<>>
  ELSE LET n == HhmmAt(s, p)
       IN IF n = 0 THEN FindAllFrom(s, p + 1)
          ELSE << <<ToInt(Slice(s, p, p + n - 1)),
                    ToInt(Slice(s, p + n + 1, p + n + 2))>> >>
               \o FindAllFrom(s, p + n + 3)

Times(l) == FindAllFrom(l, 1)

\* mins = [h * 60 + m for h, m in times]
Mins(times) == [k \in 1..Len(times) |-> times[k][1] * 60 + times[k][2]]

\* bullet, matched from the start of the line: digits and "." or one of
\* "-", U+2022; spaces; group 1: the rest of the line, at least one character.
\* Index after the bullet prefix, or 0 when the line has none.
BulletPrefixEnd(l) ==
  LET c == SkipDigits(l, 1)
  IN IF c > 1 /\ c <= Len(l) /\ l[c] = "."
       THEN c + 1
     ELSE IF Len(l) >= 1 /\ l[1] \in {"-", BULLET}
       THEN 2
     ELSE 0

\* Start of group 1: after the greedy space run, which gives one space back when
\* it has eaten the rest of the line; 0 when the pattern does not match.
BulletGroupStart(l) ==
  LET e == BulletPrefixEnd(l)
      g == SkipSpaces(l, e)
  IN IF e = 0 THEN 0
     ELSE IF g <= Len(l) THEN g
     ELSE IF g > e THEN Len(l)
     ELSE 0

BulletMatches(l) == BulletGroupStart(l) > 0

BulletName(l) == Strip(Slice(l, BulletGroupStart(l), Len(l)))

(***************************************************************************)
(* Stops.                                                                  *)
(***************************************************************************)
Stop(n, t) == [name |-> n, travel_minutes_from_prev |-> t]

\* f"Fermata {len(stops) + 1}"
FermataName(k) == <<"F", "e", "r", "m", "a", "t", "a", " ">> \o IntToStr(k)

\* stops.append({"name": m.group("name").strip("-• "), ...: int(m.group("min"))})
TimeLineStop(l) ==
  Stop(StripChars(GroupName(l), {"-", BULLET, " "}), ToInt(GroupMin(l)))

\* Variant of TimeLineLast that leaves the accumulator as it is.
TimeLineLastKept(last) == last

\* last_time after a time-line match.
TimeLineLast(last) == None

\* Variant of PairStops without the skip of negative diffs.
RECURSIVE PairStopsNoSkip(_, _, _)
PairStopsNoSkip(st, mins, i) ==
  IF i > Len(mins) THEN st
  ELSE PairStopsNoSkip(
         Append(st, Stop(FermataName(Len(st) + 1), mins[i] - mins[i - 1])),
         mins, i + 1)

\* The loop over the pairs of a line with two or more clock tokens, from
\* pair i on: a negative diff is skipped, any other becomes "Fermata <k>".
RECURSIVE PairStops(_, _, _)
PairStops(st, mins, i) ==
  IF i > Len(mins) THEN st
  ELSE LET diff == mins[i] - mins[i - 1]
       IN IF diff < 0 THEN PairStops(st, mins, i + 1)
          ELSE PairStops(Append(st, Stop(FermataName(Len(st) + 1), diff)),
                         mins, i + 1)

\* stops after the clock-sequence step on a line with tokens `times`.
ClockStops(st, times, last) ==
  IF Len(times) >= 2 THEN PairStops(st, Mins(times), 2)
  ELSE IF Len(times) = 1 /\ last /= None
    THEN LET cur == times[1][1] * 60 + times[1][2]
             diff == cur - Val(last)
         IN IF diff >= 0
              THEN Append(st, Stop(FermataName(Len(st) + 1), diff))
              ELSE st
  ELSE st

\* Variant of ClockLast in which a lone token sets an unset accumulator.
ClockLastAlwaysSet(times, last) ==
  IF Len(times) >= 2 THEN Some(Mins(times)[Len(times)])
  ELSE IF Len(times) = 1
    THEN Some(times[1][1] * 60 + times[1][2])
  ELSE last

\* Variant of ClockLast in which a backward token leaves the accumulator.
ClockLastForwardOnly(times, last) ==
  IF Len(times) >= 2 THEN Some(Mins(times)[Len(times)])
  ELSE IF Len(times) = 1 /\ last /= None
    THEN IF times[1][1] * 60 + times[1][2] >= Val(last)
           THEN Some(times[1][1] * 60 + times[1][2])
           ELSE last
  ELSE last

\* last_time after the clock-sequence step on a line with tokens `times`.
ClockLast(times, last) ==
  IF Len(times) >= 2 THEN Some(Mins(times)[Len(times)])
  ELSE IF Len(times) = 1 /\ last /= None
    THEN Some(times[1][1] * 60 + times[1][2])
  ELSE last

\* Variant of BulletStops that takes every line, matched or not.
RECURSIVE BulletStopsEveryLine(_)
BulletStopsEveryLine(ls) ==
  IF Len(ls) = 0 THEN <<>>
  ELSE <<Stop(ls[1], 3)>> \o BulletStopsEveryLine(Tail(ls))

\* The fallback loop over all lines.
RECURSIVE BulletStops(_)
BulletStops(ls) ==
  IF Len(ls) = 0 THEN <<>>
  ELSE IF BulletMatches(ls[1])
    THEN <<Stop(BulletName(ls[1]), 3)>> \o BulletStops(Tail(ls))
  ELSE BulletStops(Tail(ls))

\* Variant of EnsureFirst that leaves the list as it is.
EnsureFirstSkipped(st) == st

\* if stops: stops[0]["travel_minutes_from_prev"] = 0
EnsureFirst(st) ==
  IF Len(st) > 0
    THEN [st EXCEPT ![1] = [@ EXCEPT !.travel_minutes_from_prev = 0]]
    ELSE st

(***************************************************************************)
(* Inputs of the parser.                                                   *)
(***************************************************************************)
SeqsUpTo(S, n) == UNION {[1..k -> S] : k \in 0..n}

\* Pieces of text: a text is up to MaxLines of them joined by "\n", an OCR
\* reply carries up to MaxResults of them as its ParsedText values.
ParsedTexts ==
  { <<>>,
    <<" ">>,
    <<"0", "8", ":", "0", "0">>,
    <<"0", "8", ":", "0", "5">>,
    <<"0", "8", ":", "2", "0">>,
    <<"8", ":", "1", "0", " ", "0", "8", ":", "0", "0", " ",
      "0", "8", ":", "1", "0">>,
    <<"D", "u", "o", "m", "o", " ", "-", " ", "5", " ", "M", "i", "n">>,
    <<"-", " ", "5", " ", "m", "i", "n">>,
    <<"0", "8", ":", "0", "0", " ", "5">>,
    <<"1", ".", " ", "D", "u", "o", "m", "o">>,
    <<"\t", "L", "i", "n", "e", "a", " ", "1", "0", "0", "0", " ">> }

\* os.getenv("OCR_SPACE_API_KEY"): unset, empty or a key.
ApiKeys == {None, Some(<<>>), Some(<<"k">>)}

\* What the OCR service does: the request or its decoding raises, the reply
\* has IsErroredOnProcessing set, or it carries ParsedResults.
OcrReplies ==
  { [kind |-> "exception", results |-> <<>>],
    [kind |-> "errored", results |-> <<>>] }
  \cup {[kind |-> "ok", results |-> rs] :
          rs \in SeqsUpTo(ParsedTexts, MaxResults)}

NOTE == "OCR non disponibile. Fornisci una chiave OCR_SPACE_API_KEY ..."

\* extracted_text at the end of the OCR block of parse_image.
ExtractedText(api_key, ocr) ==
  IF api_key = None \/ Val(api_key) = <<>> THEN None
  ELSE IF ocr.kind /= "ok" THEN None
  ELSE IF Len(ocr.results) = 0 THEN None
  ELSE Some(JoinNL(ocr.results))

\* Python truth value of an Optional[str].
Truthy(t) == t /= None /\ Len(Val(t)) > 0

FallbackResponse == [text |-> <<>>, stops |-> <<>>, note |-> Some(NOTE)]

(***************************************************************************)
(* State machine.                                                          *)
(***************************************************************************)
Init ==
  /\ pc = "idle"
  /\ caller = "none"
  /\ text = None
  /\ lines = <<>>
  /\ idx = 1
  /\ stops = <<>>
  /\ last_time = None
  /\ response = None
  /\ error = "none"
  /\ db = <<>>
  /\ doc = None
  /\ base = 0
  /\ elapsed = 0
  /\ result = <<>>

\* Entry of parse_text_to_stops with a str argument.
EnterParse(t, who) ==
  /\ pc' = "loop"
  /\ caller' = who
  /\ text' = Some(t)
  /\ lines' = NormalizeLines(t)
  /\ stops' = <<>>
  /\ last_time' = None
  /\ idx' = 1
  /\ UNCHANGED <<response, error>>

\* POST /api/bus/parse-image up to the call of parse_text_to_stops.
ParseImage(api_key, ocr) ==
  /\ pc = "idle"
  /\ LET extracted_text == ExtractedText(api_key, ocr)
     IN IF ~Truthy(extracted_text)
          THEN /\ pc' = "done"
               /\ caller' = "parse_image"
               /\ text' = extracted_text
               /\ response' = Some(FallbackResponse)
               /\ UNCHANGED <<lines, idx, stops, last_time, error>>
          ELSE EnterParse(Val(extracted_text), "parse_image")
  /\ UNCHANGED etaVars

\* parse_text_to_stops(text) called on its own; None has no splitlines.
ParseTextToStops(t) ==
  /\ pc = "idle"
  /\ IF t = None
       THEN /\ pc' = "done"
            /\ caller' = "direct"
            /\ text' = None
            /\ error' = "AttributeError"
            /\ UNCHANGED <<lines, idx, stops, last_time, response>>
       ELSE EnterParse(Val(t), "direct")
  /\ UNCHANGED etaVars

\* One iteration of `for l in lines`.
LoopStep ==
  /\ pc = "loop"
  /\ idx <= Len(lines)
  /\ LET l == lines[idx]
     IN IF TimeLineMatches(l)
          THEN /\ stops' = Append(stops, TimeLineStop(l))
               /\ last_time' = TimeLineLast(last_time)
          ELSE /\ stops' = ClockStops(stops, Times(l), last_time)
               /\ last_time' = ClockLast(Times(l), last_time)
  /\ idx' = idx + 1
  /\ UNCHANGED <<pc, caller, text, lines, response, error>>
  /\ UNCHANGED etaVars

\* End of the loop: the bullet fallback when nothing was parsed.
Fallback ==
  /\ pc = "loop"
  /\ idx > Len(lines)
  /\ stops' = IF stops = <<>> THEN BulletStops(lines) ELSE stops
  /\ pc' = "ensure"
  /\ UNCHANGED <<caller, text, lines, idx, last_time, response, error>>
  /\ UNCHANGED etaVars

\* The first stop is zeroed and the list returned; parse_image wraps it.
Return ==
  /\ pc = "ensure"
  /\ stops' = EnsureFirst(stops)
  /\ response' = IF caller = "parse_image"
                   THEN Some([text |-> Val(text), stops |-> stops',
                              note |-> None])
                   ELSE Some(stops')
  /\ pc' = "done"
  /\ UNCHANGED <<caller, text, lines, idx, last_time, error>>
  /\ UNCHANGED etaVars

\* A parse-image request, for any key setting and any OCR reply.
ParseImageRequest ==
  pc = "idle" /\ \E k \in ApiKeys, o \in OcrReplies : ParseImage(k, o)

\* A call of parse_text_to_stops with absent text.
ParseAbsentText == ParseTextToStops(None)

\* A call of parse_text_to_stops with a text of up to MaxLines pieces.
ParseText ==
  pc = "idle" /\ \E rs \in SeqsUpTo(ParsedTexts, MaxLines) :
                   ParseTextToStops(Some(JoinNL(rs)))

NextParse ==
  \/ ParseImageRequest
  \/ ParseAbsentText
  \/ ParseText
  \/ LoopStep
  \/ Fallback
  \/ Return

SpecParse == Init /\ [][NextParse]_vars

(***************************************************************************)
(* Bus lines and the ETA projector.                                        *)
(***************************************************************************)
\* StopModel values a client may post: travel_minutes_from_prev is any int.
StopInputs ==
  { Stop(<<"A">>, 0), Stop(<<"B">>, 5), Stop(<<"C">>, 15), Stop(<<"B">>, -5) }

\* start_time query values: absent, or a string.
StartTimes ==
  { None,
    Some(<<>>),
    Some(<<"0", "8", ":", "0", "0">>),
    Some(<<"2", "3", ":", "5", "0">>),
    Some(<<"2", "4", ":", "0", "0">>),
    Some(<<"0", "8", "0", "0">>) }

\* datetime.now() as minutes since the midnight that starts today; seconds
\* play no part in adding whole minutes and formatting "%H:%M".
Nows == {125, 1439}

\* str.split(":")
RECURSIVE SplitColon(_, _, _)
SplitColon(s, p, start) ==
  IF p > Len(s) THEN <<Slice(s, start, Len(s))>>
  ELSE IF s[p] = ":"
    THEN <<Slice(s, start, p - 1)>> \o SplitColon(s, p + 1, p + 1)
  ELSE SplitColon(s, p + 1, start)

\* int(s) succeeds on a non-empty run of digits (the strings of StartTimes
\* hold no sign, space or underscore).
IntOk(s) == Len(s) > 0 /\ \A k \in 1..Len(s) : IsDigit(s[k])

\* base: start_time applied to today when it parses and is a valid time of
\* day, else now.
BaseTime(start_time, now) ==
  IF ~Truthy(start_time) THEN now
  ELSE LET parts == SplitColon(Val(start_time), 1, 1)
       IN IF Len(parts) /= 2 \/ ~IntOk(parts[1]) \/ ~IntOk(parts[2])
            THEN now
          ELSE LET h == ToInt(parts[1])
                   m == ToInt(parts[2])
               IN IF h > 23 \/ m > 59 THEN now ELSE h * 60 + m

\* Two-digit zero-padded decimal.
Fmt2(n) == <<DigitChars[(n \div 10) + 1], DigitChars[(n % 10) + 1]>>

\* Variant of Strftime that does not wrap at midnight.
StrftimeNoWrap(t) == Fmt2(t \div 60) \o <<":">> \o Fmt2(t % 60)

\* datetime.strftime("%H:%M") of the moment t minutes after today's midnight.
Strftime(t) ==
  LET minuteOfDay == t % 1440
  IN Fmt2(minuteOfDay \div 60) \o <<":">> \o Fmt2(minuteOfDay % 60)

\* elapsed += int(s.get("travel_minutes_from_prev", 0))
AddTravel(e, s) == e + s.travel_minutes_from_prev

\* {"name": s.get("name"), "eta": (base + timedelta(minutes=elapsed)).strftime(...)}
EtaEntry(s, b, e) == [name |-> s.name, eta |-> Strftime(b + e)]

\* Number of stops held by all the lines of the collection (bounded by
\* MaxStoredStops).
RECURSIVE TotalStops(_)
TotalStops(d) ==
  IF Len(d) = 0 THEN 0 ELSE Len(d[1].stops) + TotalStops(Tail(d))

\* A handler may start when none is in progress.
Ready == pc \in {"idle", "done"}

\* POST /api/bus/lines
CreateLine(line) ==
  /\ Ready
  /\ TotalStops(db) + Len(line.stops) <= MaxStoredStops
  /\ IF Len(line.stops) = 0
       THEN /\ error' = "400"
            /\ response' = None
            /\ db' = db
       ELSE /\ error' = "none"
            /\ db' = Append(db, line)
            /\ response' = Some(line)
  /\ pc' = "done"
  /\ caller' = "create_line"
  /\ doc' = None
  /\ base' = 0
  /\ elapsed' = 0
  /\ result' = <<>>
  /\ idx' = 1
  /\ UNCHANGED <<text, lines, stops, last_time>>

\* GET /api/bus/lines/{line_id}/eta up to the loop over the stops.
ComputeEta(valid, line_id, start_time, now) ==
  /\ Ready
  /\ caller' = "compute_eta"
  /\ response' = None
  /\ result' = <<>>
  /\ elapsed' = 0
  /\ idx' = 1
  /\ IF ~valid
       THEN /\ error' = "400"
            /\ pc' = "done"
            /\ doc' = None
            /\ base' = 0
     ELSE IF line_id > Len(db)
       THEN /\ error' = "404"
            /\ pc' = "done"
            /\ doc' = None
            /\ base' = 0
     ELSE /\ error' = "none"
          /\ pc' = "eta_loop"
          /\ doc' = Some(db[line_id])
          /\ base' = BaseTime(start_time, now)
  /\ UNCHANGED <<text, lines, stops, last_time, db>>

\* One iteration of `for s in stops`.
EtaStep ==
  /\ pc = "eta_loop"
  /\ idx <= Len(Val(doc).stops)
  /\ LET s == Val(doc).stops[idx]
     IN /\ elapsed' = AddTravel(elapsed, s)
        /\ result' = Append(result, EtaEntry(s, base, elapsed'))
  /\ idx' = idx + 1
  /\ UNCHANGED <<pc, caller, text, lines, stops, last_time, response, error,
                 db, doc, base>>

\* return {"line": ..., "etas": result}
EtaReturn ==
  /\ pc = "eta_loop"
  /\ idx > Len(Val(doc).stops)
  /\ response' = Some([line |-> Val(doc), etas |-> result])
  /\ pc' = "done"
  /\ UNCHANGED <<caller, text, lines, idx, stops, last_time, error,
                 db, doc, base, elapsed, result>>

\* A create-line request with any stop list the collection has room for.
CreateLineRequest ==
  Ready /\ \E ss \in SeqsUpTo(StopInputs, MaxStoredStops - TotalStops(db)) :
             CreateLine([stops |-> ss])

\* An eta request: a malformed id, a stored id or an unknown one, with any
\* start_time, at any of the clock readings.
ComputeEtaRequest ==
  Ready /\ \E valid \in BOOLEAN, line_id \in 1..(Len(db) + 1),
              start_time \in StartTimes, now \in Nows :
             ComputeEta(valid, line_id, start_time, now)

NextEta ==
  \/ CreateLineRequest
  \/ ComputeEtaRequest
  \/ EtaStep
  \/ EtaReturn

SpecEta == Init /\ [][NextEta]_vars

TypeOK == pc \in {"idle", "loop", "ensure", "done", "eta_loop"}

(***************************************************************************)
(* Properties.                                                             *)
(***************************************************************************)
\* The list a finished parse returned (parse_image wraps it in "stops").
Returned == IF caller = "parse_image" THEN Val(response).stops ELSE Val(response)

\* A parse request has finished with a response.
ParseDone == pc = "done" /\ error = "none" /\ response /= None

\* Minutes of day of the only clock token of line l.
Cur(l) == Times(l)[1][1] * 60 + Times(l)[1][2]

\* Line l reaches the clock-sequence step and holds exactly one token there.
LoneToken(l) == ~TimeLineMatches(l) /\ Len(Times(l)) = 1

Text0800_0805_0820 ==
  <<"0", "8", ":", "0", "0", "\n", "0", "8", ":", "0", "5", "\n",
    "0", "8", ":", "2", "0">>

\* C1: a non-empty returned stop list starts with travel_minutes_from_prev = 0,
\* whichever strategy produced the stops.
C1_FirstStopZero ==
  (ParseDone /\ Len(Returned) > 0) =>
    Returned[1].travel_minutes_from_prev = 0

\* C1 witness: a returned list whose first stop came from a time-line match
\* with a minute count above 0.
C1_Witness ==
  /\ ParseDone
  /\ Len(Returned) > 1
  /\ TimeLineMatches(lines[1])
  /\ ToInt(GroupMin(lines[1])) > 0

\* C2 as stated: lines that each hold exactly one clock token, with
\* non-decreasing times, give one stop per line; "08:00\n08:05\n08:20" gives
\* Fermata 1, 2, 3 with 0, 5, 15 minutes.
C2_OneStopPerLine ==
  (ParseDone /\ text = Some(Text0800_0805_0820)) =>
    Returned = << Stop(FermataName(1), 0), Stop(FermataName(2), 5),
                  Stop(FermataName(3), 15) >>

\* C2 amended: lines that each hold exactly one clock token and match neither
\* the time-line nor the bullet pattern give no stop at all, because a lone
\* token never sets the unset accumulator; "08:00\n08:05\n08:20" gives [].
C2_LoneTokensGiveNothing ==
  (ParseDone /\ text /= None
     /\ \A k \in 1..Len(lines) : LoneToken(lines[k]) /\ ~BulletMatches(lines[k]))
  => (Returned = <<>> /\ last_time = None)

\* C2 witness: the three-line example has been parsed and returned [].
C2_Witness ==
  /\ ParseDone
  /\ text = Some(Text0800_0805_0820)
  /\ Len(lines) = 3
  /\ Returned = <<>>

\* C3: every stop emitted by the time-line or the clock-sequence pattern has
\* travel_minutes_from_prev >= 0 (the loop is the only place they are made).
C3_TravelNonNegative ==
  (pc \in {"loop", "ensure", "done"}) =>
    \A k \in 1..Len(stops) : stops[k].travel_minutes_from_prev >= 0

\* C3 witness: the loop has passed a line whose clock tokens go backward and
\* forward, and kept a stop for the forward pair only.
C3_Witness ==
  /\ pc = "loop"
  /\ idx = 2
  /\ Len(Times(lines[1])) >= 3
  /\ \E k \in 2..Len(Times(lines[1])) :
       Mins(Times(lines[1]))[k] < Mins(Times(lines[1]))[k - 1]
  /\ Len(stops) = 1

\* C4 as stated: while compute_eta walks the stops of a stored line, elapsed
\* never decreases.
C4_ElapsedNonDecreasing ==
  [][pc = "eta_loop" => elapsed' >= elapsed]_vars

\* parse_image's text is absent, empty or blank.
NoTextAtAll == text = None \/ NormalizeLines(Val(text)) = <<>>

\* C5 as stated: absent, empty or blank text gets the fallback response with
\* the note, and a response without the note has a non-blank line.
C5_BlankGivesFallback ==
  (pc = "done" /\ caller = "parse_image") =>
    /\ NoTextAtAll => Val(response) = FallbackResponse
    /\ Val(response).note = None => ~NoTextAtAll

\* Sum of travel_minutes_from_prev over the first k stops.
RECURSIVE SumTravel(_, _)
SumTravel(ss, k) ==
  IF k = 0 THEN 0 ELSE SumTravel(ss, k - 1) + ss[k].travel_minutes_from_prev

\* "HH:MM" for a minute of day m in 0..1439.
ClockText(m) ==
  <<DigitChars[(m \div 600) + 1], DigitChars[((m \div 60) % 10) + 1], ":",
    DigitChars[((m % 60) \div 10) + 1], DigitChars[(m % 10) + 1]>>

ABC == <<Stop(<<"A">>, 0), Stop(<<"B">>, 5), Stop(<<"C">>, 15)>>

\* A compute_eta request has returned its etas.
EtaDone == pc = "done" /\ caller = "compute_eta" /\ error = "none"

\* C6: compute_eta returns one entry per stored stop, in order, with the
\* stop's name and the time of day (base + travel of stops 0..i) mod 24h as
\* zero-padded HH:MM; A0 B5 C15 from 08:00 give 08:00, 08:05, 08:20, and from
\* 23:50 the last one wraps to 00:10.
C6_EtaPerStop ==
  EtaDone =>
    LET ss == Val(doc).stops
        etas == Val(response).etas
    IN /\ Len(etas) = Len(ss)
       /\ \A k \in 1..Len(ss) :
            /\ etas[k].name = ss[k].name
            /\ etas[k].eta = ClockText((base + SumTravel(ss, k)) % 1440)
       /\ (ss = ABC /\ base = 480) =>
            etas = << [name |-> <<"A">>, eta |-> <<"0", "8", ":", "0", "0">>],
                      [name |-> <<"B">>, eta |-> <<"0", "8", ":", "0", "5">>],
                      [name |-> <<"C">>, eta |-> <<"0", "8", ":", "2", "0">>] >>
       /\ (ss = ABC /\ base = 1430) =>
            etas[3].eta = <<"0", "0", ":", "1", "0">>

\* C6 witness: A0 B5 C15 projected from 23:50, across midnight.
C6_Witness ==
  /\ EtaDone
  /\ Val(doc).stops = ABC
  /\ base = 1430
  /\ Len(Val(response).etas) = 3

\* No line has any structure the three patterns recognise.
NoStructure(ls) ==
  \A k \in 1..Len(ls) :
    /\ ~TimeLineMatches(ls[k])
    /\ Len(Times(ls[k])) = 0
    /\ ~BulletMatches(ls[k])

C8_NamesNonEmpty ==
  ParseDone => \A k \in 1..Len(Returned) : Len(Returned[k].name) > 0

\* C9: a line the time-line pattern matches adds exactly its one stop (the
\* clock-sequence step is not run on it) and unsets the accumulator, and the
\* line after it, when it reaches the clock-sequence step with exactly one
\* token, adds no stop, whatever an earlier line had put in the accumulator.
C9_TimeLineResets ==
  [][(pc = "loop" /\ idx <= Len(lines)) =>
       /\ TimeLineMatches(lines[idx]) =>
            /\ stops' = Append(stops, TimeLineStop(lines[idx]))
            /\ last_time' = None
       /\ (idx > 1 /\ TimeLineMatches(lines[idx - 1]) /\ LoneToken(lines[idx])) =>
            /\ stops' = stops
            /\ last_time' = None]_vars

\* C9 witness: a line with several tokens set the accumulator, a time-line
\* line followed, and the lone token after it has been passed with no stop.
C9_Witness ==
  /\ pc = "loop"
  /\ idx = 4
  /\ Len(Times(lines[1])) >= 2
  /\ ~TimeLineMatches(lines[1])
  /\ TimeLineMatches(lines[2])
  /\ LoneToken(lines[3])
  /\ stops[Len(stops)] = TimeLineStop(lines[2])
  /\ last_time = None

\* C10: with the accumulator set, a line that reaches the clock-sequence step
\* with exactly one token earlier than the accumulator adds no stop and moves
\* the accumulator to its time; a token not earlier adds "Fermata <k>" with
\* the diff to the accumulator as it then stands, so the line after a
\* backward one is diffed against the backward time.
C10_BackwardAdvances ==
  [][(pc = "loop" /\ idx <= Len(lines) /\ LoneToken(lines[idx])
        /\ last_time /= None) =>
       /\ last_time' = Some(Cur(lines[idx]))
       /\ Cur(lines[idx]) < Val(last_time) => stops' = stops
       /\ Cur(lines[idx]) >= Val(last_time) =>
            stops' = Append(stops, Stop(FermataName(Len(stops) + 1),
                                        Cur(lines[idx]) - Val(last_time)))]_vars

\* C10 witness: 08:10 in the accumulator, then 08:00 (backward, no stop),
\* then 08:05, which got a stop of 5 minutes, earlier than the 08:10.
C10_Witness ==
  /\ pc = "loop"
  /\ idx = 4
  /\ Len(Times(lines[1])) >= 2
  /\ ~TimeLineMatches(lines[1])
  /\ LoneToken(lines[2])
  /\ Cur(lines[2]) < Mins(Times(lines[1]))[Len(Times(lines[1]))]
  /\ LoneToken(lines[3])
  /\ Cur(lines[3]) < Mins(Times(lines[1]))[Len(Times(lines[1]))]
  /\ Cur(lines[3]) > Cur(lines[2])
  /\ stops[Len(stops)].travel_minutes_from_prev = Cur(lines[3]) - Cur(lines[2])
  /\ last_time = Some(Cur(lines[3]))

====
